---------------------------- MODULE Spec2Model ----------------------------
(***************************************************************************)
(* A model of the PAI reputation score engine (src/PaiScoreV3.py, the most *)
(* general of the three source variants).                                  *)
(*                                                                         *)
(* Representation choices:                                                 *)
(*  - a datetime.date is its proleptic Gregorian ordinal (date.toordinal), *)
(*    an integer; timedelta(days=n) is the integer n; the year and month   *)
(*    of a date are computed from the ordinal by the civil calendar.       *)
(*  - a Python float score is a fixed-point integer counting 1/Scale       *)
(*    units (Scale = 10000): 0.5 is 5000, 100 is 1000000.  A product       *)
(*    x * y of two floats is (x * y) \div Scale, truncated.                *)
(*  - None is NoDate (dates), NoName (names, the falsy empty string),      *)
(*    NoType (role classes) and NoBadge (tiers).                           *)
(***************************************************************************)
EXTENDS Integers, Sequences, FiniteSets, TLC

VARIABLES
    users,          \* PaiSystem.users: name -> User, the registry
    current_date,   \* PaiSystem.current_date
    last            \* the last call made on the system, its arguments and outcome

vars == <<users, current_date, last>>

----------------------------------------------------------------------------
(* Representation of None and of real numbers *)

NoDate == 0
NoName == ""
NoType == "none"
NoBadge == "None"

Scale == 10000

\* Python's x * y on two fixed-point values.
FMul(x, y) == (x * y) \div Scale

\* math.pow(base, n) for a fixed-point base in [0, 1] and an integer n >= 0.
RECURSIVE FPow(_, _)
FPow(base, n) == IF n <= 0 THEN Scale ELSE FMul(FPow(base, n - 1), base)

Max(a, b) == IF a >= b THEN a ELSE b
Min(a, b) == IF a <= b THEN a ELSE b

----------------------------------------------------------------------------
(* datetime.date: ordinal <-> (year, month, day) *)

\* date(y, m, d).toordinal()
DateOf(y, m, d) ==
    LET yy  == IF m <= 2 THEN y - 1 ELSE y
        era == yy \div 400
        yoe == yy - era * 400
        mp  == IF m > 2 THEN m - 3 ELSE m + 9
        doy == (153 * mp + 2) \div 5 + d - 1
        doe == yoe * 365 + yoe \div 4 - yoe \div 100 + doy
    IN  era * 146097 + doe - 305

\* date.fromordinal(n) as a record [year, month, day], computed in stages:
\* the 400-year era and the day of the era, the year of the era, the day of
\* the year (years starting in March), the month and the day.
CivilOfMonth(y, m, d) ==
    [year |-> y + (IF m <= 2 THEN 1 ELSE 0), month |-> m, day |-> d]

CivilOfMp(y, doy, mp) ==
    CivilOfMonth(y, IF mp < 10 THEN mp + 3 ELSE mp - 9,
                 doy - (153 * mp + 2) \div 5 + 1)

CivilOfDoy(y, doy) == CivilOfMp(y, doy, (5 * doy + 2) \div 153)

CivilOfYoe(era, doe, yoe) ==
    CivilOfDoy(yoe + era * 400,
               doe - (365 * yoe + yoe \div 4 - yoe \div 100))

CivilOfDoe(era, doe) ==
    CivilOfYoe(era, doe,
               (doe - doe \div 1460 + doe \div 36524 - doe \div 146096) \div 365)

CivilOfEra(z, era) == CivilOfDoe(era, z - era * 146097)

Civil(n) == CivilOfEra(n + 305, (n + 305) \div 146097)

YearOf(n) == Civil(n).year
MonthOf(n) == Civil(n).month
DayOf(n) == Civil(n).day

----------------------------------------------------------------------------
(* ACTION_WEIGHTS, BADGE_LEVELS *)

\* One catalog entry.  An entry without "target_score" reads as 0 and one
\* without "delay_factor" reads as 1.0, the defaults of weights.get(...) in
\* get_effective_score.
Entry(score, target_score, decay, allowed_for, affects_target, delay_factor) ==
    [score |-> score, target_score |-> target_score, decay |-> decay,
     allowed_for |-> allowed_for, affects_target |-> affects_target,
     delay_factor |-> delay_factor]

Both == {"common", "advertiser"}
Com == {"common"}
Adv == {"advertiser"}

ACTION_WEIGHTS ==
    [t \in {"LOGIN", "AD_LIKED", "POSITIVE_COMMENT", "AD_SHARED", "AD_VISITED",
            "GAINED_FOLLOWER", "FOLLOWED_USER", "SENT_MESSAGE", "RECEIVED_MESSAGE",
            "RESPONDED_TO_MESSAGE", "ADDED_TO_FAVOURITES", "VISITED_PROFILE",
            "AD_POSTED_FREE", "AD_POSTED_PAI", "AD_POSTED_MONEY",
            "RESPONDED_TO_REVIEW", "GAVE_RATING", "RECEIVED_RATING",
            "VERIFIED_PROFILE", "REVIEW_RECEIVED", "AD_BLOCKED", "AD_REPORTED",
            "REPORTED_ADVERTISER", "INACTIVITY"} |->
     CASE t = "LOGIN"                -> Entry(5000, 0, 500, Both, FALSE, 10000)
       [] t = "AD_LIKED"             -> Entry(10000, 20000, 300, Com, TRUE, 9700)
       [] t = "POSITIVE_COMMENT"     -> Entry(20000, 25000, 200, Com, TRUE, 9800)
       [] t = "AD_SHARED"            -> Entry(40000, 30000, 100, Both, TRUE, 9800)
       [] t = "AD_VISITED"           -> Entry(3000, 15000, 700, Com, TRUE, 9600)
       [] t = "GAINED_FOLLOWER"      -> Entry(50000, 0, 100, Adv, FALSE, 10000)
       [] t = "FOLLOWED_USER"        -> Entry(7000, 15000, 800, Both, TRUE, 10000)
       [] t = "SENT_MESSAGE"         -> Entry(10000, 0, 300, Both, FALSE, 10000)
       [] t = "RECEIVED_MESSAGE"     -> Entry(5000, 0, 300, Both, FALSE, 10000)
       [] t = "RESPONDED_TO_MESSAGE" -> Entry(12000, 0, 300, Adv, FALSE, 10000)
       [] t = "ADDED_TO_FAVOURITES"  -> Entry(40000, 10000, 100, Com, TRUE, 9700)
       [] t = "VISITED_PROFILE"      -> Entry(4000, 4000, 600, Com, TRUE, 10000)
       [] t = "AD_POSTED_FREE"       -> Entry(40000, 0, 200, Adv, FALSE, 10000)
       [] t = "AD_POSTED_PAI"        -> Entry(80000, 0, 100, Adv, FALSE, 10000)
       [] t = "AD_POSTED_MONEY"      -> Entry(150000, 0, 50, Adv, FALSE, 10000)
       [] t = "RESPONDED_TO_REVIEW"  -> Entry(10000, 5000, 200, Adv, TRUE, 9900)
       [] t = "GAVE_RATING"          -> Entry(15000, 0, 400, Com, FALSE, 10000)
       [] t = "RECEIVED_RATING"      -> Entry(35000, 0, 200, Adv, FALSE, 10000)
       [] t = "VERIFIED_PROFILE"     -> Entry(100000, 0, 0, Both, FALSE, 10000)
       [] t = "REVIEW_RECEIVED"      -> Entry(20000, 0, 200, Adv, FALSE, 10000)
       [] t = "AD_BLOCKED"           -> Entry(-50000, 0, 0, Adv, FALSE, 10000)
       [] t = "AD_REPORTED"          -> Entry(-60000, 0, 0, Com, FALSE, 10000)
       [] t = "REPORTED_ADVERTISER"  -> Entry(-200000, 0, 0, Adv, FALSE, 10000)
       [] t = "INACTIVITY"           -> Entry(-30000, 0, 0, Both, FALSE, 10000)]

\* BADGE_LEVELS, in dict order: <<min_score, max_score, name>> (whole points).
BADGE_LEVELS ==
    << <<0, 29, "New">>, <<30, 59, "Explorer">>, <<60, 79, "Trusted">>,
       <<80, 94, "Elite">>, <<95, 100, "Ambassador">> >>

MAX_AGE_SCORE_CONTRIBUTION == 20

history_days == 30

----------------------------------------------------------------------------
(* UserAction *)

\* UserAction.__init__ for a catalogued action_type (the ValueError of an
\* uncatalogued one is never reached from handle_user_action, which returns
\* before it).
UserAction(action_type, date, actor, delay_days) ==
    [action_type |-> action_type, date |-> date, actor |-> actor,
     delay_days |-> delay_days]

\* A decay by the distance in days, whichever of the two dates is later.
DecayedAbs(base_score, decay, days_old) ==
    IF decay > 0
    THEN FMul(base_score,
              FPow(Scale - decay, IF days_old < 0 THEN -days_old ELSE days_old))
    ELSE base_score

\* The temporal decay of get_effective_score:
\* if decay > 0: score *= pow(1 - decay, max(days_old, 0)).
Decayed(base_score, decay, days_old) ==
    IF decay > 0
    THEN FMul(base_score, FPow(Scale - decay, Max(days_old, 0)))
    ELSE base_score

\* The delay penalty of get_effective_score:
\* if delay_days > 0 and delay_factor < 1.0: score *= pow(delay_factor, delay_days).
Delayed(score, delay_factor, delay_days) ==
    IF delay_days > 0 /\ delay_factor < Scale
    THEN FMul(score, FPow(delay_factor, delay_days))
    ELSE score

\* get_effective_score with self.weights at hand.
EffectiveScore(a, weights, as_of) ==
    Delayed(Decayed(IF a.actor THEN weights.score ELSE weights.target_score,
                    weights.decay, as_of - a.date),
            weights.delay_factor, a.delay_days)

\* UserAction.get_effective_score(current_date)
GetEffectiveScore(a, as_of) ==
    EffectiveScore(a, ACTION_WEIGHTS[a.action_type], as_of)

----------------------------------------------------------------------------
(* User *)

\* User.__init__
User(creation_date, user_type) ==
    [type |-> user_type, creation_date |-> creation_date,
     action_history |-> <<>>, score |-> 0, badge |-> NoBadge,
     age_score_component |-> 0, last_action_date |-> NoDate]

\* An add_action that drops the role flag and records every action as the
\* actor's.
AddActionAsActor(u, action_type, date, actor, delay_days) ==
    [u EXCEPT
       !.action_history = Append(@, UserAction(action_type, date, TRUE, delay_days)),
       !.last_action_date = IF @ = NoDate \/ date > @ THEN date ELSE @]

\* User.add_action
AddAction(u, action_type, date, actor, delay_days) ==
    [u EXCEPT
       !.action_history = Append(@, UserAction(action_type, date, actor, delay_days)),
       !.last_action_date = IF @ = NoDate \/ date > @ THEN date ELSE @]

----------------------------------------------------------------------------
(* PaiSystem *)

\* A get_or_create_user without its safe-guard: it never raises.
TypeMismatchNever(us, name, user_type) == FALSE

\* The type-mismatch test of get_or_create_user: the ValueError branch.
TypeMismatch(us, name, user_type) ==
    /\ name \in DOMAIN us
    /\ user_type # NoType
    /\ us[name].type # user_type

\* get_or_create_user when it does not raise: the registry afterwards.
GetOrCreateUser(us, name, user_type, creation_date, today) ==
    IF name \notin DOMAIN us
    THEN (name :> User(IF creation_date # NoDate THEN creation_date ELSE today,
                       user_type)) @@ us
    ELSE us

\* _get_badge_for_score: the first range of BADGE_LEVELS holding the score,
\* else the two out-of-range fallbacks, else None.
RECURSIVE ScanBadges(_, _)
ScanBadges(score, i) ==
    IF i > Len(BADGE_LEVELS) THEN NoBadge
    ELSE IF BADGE_LEVELS[i][1] * Scale <= score /\ score <= BADGE_LEVELS[i][2] * Scale
         THEN BADGE_LEVELS[i][3]
         ELSE ScanBadges(score, i + 1)

BadgeOrFallback(found, score) ==
    IF found # NoBadge THEN found
    ELSE IF score > 100 * Scale THEN "Ambassador"
    ELSE IF score < 0 THEN "New"
    ELSE NoBadge

GetBadgeForScore(score) == BadgeOrFallback(ScanBadges(score, 1), score)

\* total_months of _calculate_age_score
TotalMonths(creation_date, today) ==
    (YearOf(today) - YearOf(creation_date)) * 12
    + (MonthOf(today) - MonthOf(creation_date))

\* An age_multiplier with a zero tier for accounts younger than two years.
AgeMultiplierZeroTier(total_months) ==
    IF total_months >= 8 * 12 THEN 5000
    ELSE IF total_months >= 5 * 12 THEN 4000
    ELSE IF total_months >= 2 * 12 THEN 3000
    ELSE 0

\* age_multiplier of _calculate_age_score: account_age_years >= k, with
\* account_age_years = total_months / 12.0, is total_months >= 12 k.
AgeMultiplier(total_months) ==
    IF total_months >= 8 * 12 THEN 5000
    ELSE IF total_months >= 5 * 12 THEN 4000
    ELSE IF total_months >= 2 * 12 THEN 3000
    ELSE 1500

\* _calculate_age_score
CalculateAgeScore(creation_date, today) ==
    MAX_AGE_SCORE_CONTRIBUTION * AgeMultiplier(TotalMonths(creation_date, today))

\* A prune with a strict comparison: a.date > cutoff.
PruneHistoryStrict(h, today) ==
    LET cutoff == today - history_days
    IN  SelectSeq(h, LAMBDA a : a.date > cutoff)

\* The list comprehension of update_user_score: the records dated at or
\* after the cutoff, in order.
PruneHistory(h, today) ==
    LET cutoff == today - history_days
    IN  SelectSeq(h, LAMBDA a : a.date >= cutoff)

\* sum(a.get_effective_score(current_date) for a in action_history)
RECURSIVE SumScores(_, _)
SumScores(h, today) ==
    IF h = <<>> THEN 0
    ELSE GetEffectiveScore(Head(h), today) + SumScores(Tail(h), today)

\* A clamp that forgets the upper bound: max(0, x).
ClampLowerOnly(x) == Max(0, x)

\* max(0, min(100, x))
Clamp(x) == Max(0, Min(100 * Scale, x))

\* The stores of update_user_score: the pruned history, the tenure bonus,
\* the final score and its badge.
StoreScore(u, kept, age_score, final_score) ==
    [u EXCEPT !.action_history = kept,
              !.age_score_component = age_score,
              !.score = final_score,
              !.badge = GetBadgeForScore(final_score)]

\* A rescoring that adds to the stored score instead of replacing it.
RescoreAccumulating(u, kept, age_score, today) ==
    StoreScore(u, kept, age_score,
               Clamp(u.score + SumScores(kept, today) + age_score))

\* update_user_score once the history is pruned and the tenure bonus known.
Rescore(u, kept, age_score, today) ==
    StoreScore(u, kept, age_score, Clamp(SumScores(kept, today) + age_score))

\* An update_user_score that scores the whole history and prunes nothing.
UpdateUserNoPrune(u, today) ==
    Rescore(u, u.action_history,
            CalculateAgeScore(u.creation_date, today), today)

\* update_user_score on one User
UpdateUser(u, today) ==
    Rescore(u, PruneHistory(u.action_history, today),
            CalculateAgeScore(u.creation_date, today), today)

\* update_user_score(user_name) for a registered name: the registry afterwards.
UpdateUserScore(us, name, today) ==
    [us EXCEPT ![name] = UpdateUser(us[name], today)]

----------------------------------------------------------------------------
(* The record of the last call *)

\* A call of handle_user_action with its arguments, before it has run.
SubmitCall(user_name, action_type, user_type, action_date, creation_date, target_user_name, target_user_type, target_creation_date, delay_days, target_delay_days) ==
    [op |-> "submit", user_name |-> user_name, action_type |-> action_type,
     user_type |-> user_type, action_date |-> action_date,
     creation_date |-> creation_date,
     target_user_name |-> target_user_name, target_user_type |-> target_user_type,
     target_creation_date |-> target_creation_date,
     delay_days |-> delay_days, target_delay_days |-> target_delay_days,
     days |-> 0, outcome |-> "pending"]

\* A call of another operation: only the fields it has are set.
OtherCall(op, user_name, days, outcome) ==
    [SubmitCall(user_name, "", NoType, NoDate, NoDate, NoName, NoType, NoDate, 0, 0)
        EXCEPT !.op = op, !.days = days, !.outcome = outcome]

NoCall == OtherCall("init", NoName, 0, "done")

----------------------------------------------------------------------------
(* handle_user_action *)

\* ACTION_WEIGHTS.get(action_type) found an entry.
KnownType(action_type) == action_type \in DOMAIN ACTION_WEIGHTS

\* An eligibility test that lets every role through.
EligibleAny(user_type, allowed_for) == TRUE

\* The eligibility test: not (actor.type not in allowed_for).
Eligible(user_type, allowed_for) == user_type \in allowed_for

\* A target test that takes every call to name a target.
HasTargetAlways(target_user_name) == TRUE

\* The target test: not (not target_user_name).
HasTarget(target_user_name) == target_user_name # NoName

\* An argument the caller leaves out of the call.
NotSupplied == -1

\* The signature default of delay_days and target_delay_days (= 0): the
\* value the body sees for an argument left out.
DefaultZero(x) == IF x = NotSupplied THEN 0 ELSE x

\* The delay of the target-role record:
\* target_delay_days if target_delay_days else delay_days.
TargetDelay(delay_days, target_delay_days) ==
    IF target_delay_days # 0 THEN target_delay_days ELSE delay_days

\* The date of the call's records: action_date, or the current date.
ActionDate(c, today) == IF c.action_date = NoDate THEN today ELSE c.action_date

\* An add_action that is not followed by update_user_score.
RecordNoRecompute(us, name, today, c, actor, delay_days) ==
    [us EXCEPT ![name] = AddAction(@, c.action_type, ActionDate(c, today),
                                   actor, delay_days)]

\* add_action followed by update_user_score for one registered name.
Record(us, name, today, c, actor, delay_days) ==
    UpdateUserScore(
        [us EXCEPT ![name] = AddAction(@, c.action_type, ActionDate(c, today),
                                       actor, delay_days)],
        name, today)

\* handle_user_action from the target test on (lines 213-219); us holds the
\* actor's record.
TargetSide(us, today, c) ==
    IF ~ACTION_WEIGHTS[c.action_type].affects_target \/ ~HasTarget(c.target_user_name)
    THEN [users |-> us, outcome |-> "returned_actor"]
    ELSE IF TypeMismatch(us, c.target_user_name, c.target_user_type)
    THEN [users |-> us, outcome |-> "ValueError"]
    ELSE [users |-> Record(GetOrCreateUser(us, c.target_user_name,
                                           c.target_user_type,
                                           c.target_creation_date, today),
                           c.target_user_name, today, c, FALSE,
                           TargetDelay(c.delay_days,
                                       DefaultZero(c.target_delay_days))),
          outcome |-> "returned_actor"]

\* An actor side that appends and scores the record without testing the
\* actor's eligibility.
ActorSideUnchecked(us, today, c) ==
    TargetSide(Record(us, c.user_name, today, c, TRUE, c.delay_days), today, c)

\* handle_user_action from the eligibility test on (lines 207-219); us holds
\* the actor.
ActorSide(us, today, c) ==
    IF ~Eligible(us[c.user_name].type, ACTION_WEIGHTS[c.action_type].allowed_for)
    THEN [users |-> us, outcome |-> "returned_actor"]
    ELSE TargetSide(Record(us, c.user_name, today, c, TRUE, c.delay_days),
                    today, c)

\* A handle_user_action that undoes its changes when it raises.
HandleUserActionAtomic(us, today, c) ==
    IF ~KnownType(c.action_type)
    THEN [users |-> us, outcome |-> "returned_none"]
    ELSE IF TypeMismatch(us, c.user_name, c.user_type)
    THEN [users |-> us, outcome |-> "ValueError"]
    ELSE IF ActorSide(GetOrCreateUser(us, c.user_name, c.user_type,
                                      c.creation_date, today),
                      today, c).outcome = "ValueError"
    THEN [users |-> us, outcome |-> "ValueError"]
    ELSE ActorSide(GetOrCreateUser(us, c.user_name, c.user_type,
                                   c.creation_date, today),
                   today, c)

\* The registry after handle_user_action, and how the call ended:
\* "returned_none" (return), "returned_actor" (return actor) or "ValueError"
\* (raised by get_or_create_user).
HandleUserAction(us, today, c) ==
    IF ~KnownType(c.action_type)
    THEN [users |-> us, outcome |-> "returned_none"]
    ELSE IF TypeMismatch(us, c.user_name, c.user_type)
    THEN [users |-> us, outcome |-> "ValueError"]
    ELSE ActorSide(GetOrCreateUser(us, c.user_name, c.user_type,
                                   c.creation_date, today),
                   today, c)

\* A handle_user_action that resolves the acting participant before it looks
\* the event type up (the order of src/PaiScore.py).
SubmitEager(c) ==
    /\ users' = HandleUserAction(
                    IF TypeMismatch(users, c.user_name, c.user_type) THEN users
                    ELSE GetOrCreateUser(users, c.user_name, c.user_type,
                                         c.creation_date, current_date),
                    current_date, c).users
    /\ current_date' = current_date
    /\ last' = [c EXCEPT !.outcome =
                    HandleUserAction(users, current_date, c).outcome]

\* The call ends with result r.
Finish(c, r) ==
    /\ users' = r.users
    /\ current_date' = current_date
    /\ last' = [c EXCEPT !.outcome = r.outcome]

\* One call of handle_user_action, from entry to return or raise.
Submit(c) == Finish(c, HandleUserAction(users, current_date, c))

----------------------------------------------------------------------------
(* advance_time, update_user_score *)

\* An advance_time that moves the clock and recomputes nobody.
AdvanceTimeNoRecompute(days) ==
    /\ current_date' = current_date + days
    /\ users' = users
    /\ last' = OtherCall("advance", NoName, days, "done")

\* advance_time(days)
AdvanceTime(days) ==
    /\ current_date' = current_date + days
    /\ users' = [n \in DOMAIN users |-> UpdateUser(users[n], current_date + days)]
    /\ last' = OtherCall("advance", NoName, days, "done")

\* A direct call of PaiSystem.update_user_score(user_name); users[user_name]
\* raises KeyError for an unregistered name.
Recompute(user_name) ==
    /\ current_date' = current_date
    /\ users' = IF user_name \in DOMAIN users
                THEN UpdateUserScore(users, user_name, current_date)
                ELSE users
    /\ last' = OtherCall("recompute", user_name, 0,
                         IF user_name \in DOMAIN users THEN "done" ELSE "KeyError")

----------------------------------------------------------------------------
(* The system: inputs, bounds, specification *)

\* main(): pai_system.current_date = sim_start_date
StartDate == DateOf(2025, 7, 18)

Names == {"a", "b"}
UserTypes == {NoType, "common", "advertiser"}

\* Bounds of the exploration
MaxHist == 2
MaxElapsed == 31
AdvanceDays == {30, 31}

HistLen(n) == IF n \in DOMAIN users THEN Len(users[n].action_history) ELSE 0

\* An explicit action_date one day older than the history window.
StaleDate == current_date - (history_days + 1)

Init ==
    /\ users = <<>>
    /\ current_date = StartDate
    /\ last = NoCall

\* The caller is between calls: it has taken the outcome of the last one.
Idle == last = NoCall

\* handle_user_action with an event type that is not in the catalog
SubmitUnknown ==
    \E user_name \in Names :
        /\ Idle
        /\ Submit(SubmitCall(user_name, "BOGUS", "common", NoDate, NoDate, NoName, NoType, NoDate, 0, 0))

\* handle_user_action with a single-party event type
SubmitSingle ==
    \E user_name \in Names, user_type \in UserTypes,
       action_date \in {NoDate, StaleDate} :
        /\ Idle
        /\ HistLen(user_name) < MaxHist
        /\ Submit(SubmitCall(user_name, "LOGIN", user_type, action_date, NoDate, NoName, NoType, NoDate, 0, 0))

\* handle_user_action with a secondary-party event type and no target
SubmitNoTarget ==
    \E user_name \in Names, user_type \in UserTypes :
        /\ Idle
        /\ HistLen(user_name) < MaxHist
        /\ Submit(SubmitCall(user_name, "AD_LIKED", user_type, NoDate, NoDate, NoName, NoType, NoDate, 0, 0))

\* handle_user_action with a secondary-party event type and a target
SubmitDual ==
    \E user_name \in Names, user_type \in UserTypes,
       target_user_name \in Names, target_user_type \in UserTypes :
        /\ Idle
        /\ HistLen(user_name) < MaxHist
        /\ HistLen(target_user_name) < MaxHist
        /\ Submit(SubmitCall(user_name, "AD_LIKED", user_type, NoDate, NoDate, target_user_name, target_user_type, NoDate, 0, 0))

\* handle_user_action with a secondary-party event type, a target, and an
\* explicit date older than the history window
SubmitDualStale ==
    \E user_name \in Names, target_user_name \in Names :
        /\ Idle
        /\ HistLen(user_name) < MaxHist
        /\ HistLen(target_user_name) < MaxHist
        /\ Submit(SubmitCall(user_name, "AD_LIKED", "common", StaleDate, NoDate, target_user_name, "advertiser", NoDate, 0, 0))

AdvanceStep ==
    \E days \in AdvanceDays :
        /\ Idle
        /\ current_date + days <= StartDate + MaxElapsed
        /\ AdvanceTime(days)

RecomputeStep ==
    \E user_name \in Names : Idle /\ Recompute(user_name)

\* The caller takes the outcome of the call; the system is left as it is.
Return ==
    /\ ~Idle
    /\ last' = NoCall
    /\ UNCHANGED <<users, current_date>>

Next ==
    \/ SubmitUnknown
    \/ SubmitSingle
    \/ SubmitNoTarget
    \/ SubmitDual
    \/ SubmitDualStale
    \/ AdvanceStep
    \/ RecomputeStep
    \/ Return

Spec == Init /\ [][Next]_vars

----------------------------------------------------------------------------
(* A second specification for the scoring arithmetic: one advertiser, long  *)
(* histories of a large positive and a large negative event type, the clock *)
(* moving one day at a time.                                                *)

ScoreNames == {"a"}
ScoreTypes == {"AD_POSTED_MONEY", "REPORTED_ADVERTISER"}

\* A creation date eight years before the start date.
OldCreation == DateOf(2017, 7, 18)

MaxHistScore == 7
MaxElapsedScore == 1

SubmitScore ==
    \E user_name \in ScoreNames, action_type \in ScoreTypes,
       creation_date \in {NoDate, OldCreation} :
        /\ Idle
        /\ HistLen(user_name) < MaxHistScore
        /\ Submit(SubmitCall(user_name, action_type, "advertiser", NoDate, creation_date, NoName, NoType, NoDate, 0, 0))

AdvanceScore ==
    /\ Idle
    /\ current_date + 1 <= StartDate + MaxElapsedScore
    /\ AdvanceTime(1)

RecomputeScore ==
    \E user_name \in ScoreNames : Idle /\ Recompute(user_name)

NextScore ==
    \/ SubmitScore
    \/ AdvanceScore
    \/ RecomputeScore
    \/ Return

SpecScore == Init /\ [][NextScore]_vars

----------------------------------------------------------------------------
(* A third specification for the tenure bonus: one participant, creation    *)
(* dates on both sides of the two-, five- and eight-year thresholds, the    *)
(* clock moving across the ends of July and August 2025.                    *)

AgeNames == {"a"}

\* Creation dates: eight years to the day before the start date, thirteen
\* days short of eight years, and dates whose second, fifth and eighth
\* anniversaries fall in August 2025; NoDate creates at the current date.
AgeCreations ==
    {NoDate, OldCreation, DateOf(2017, 7, 31), DateOf(2017, 8, 1),
     DateOf(2020, 8, 15), DateOf(2023, 8, 31)}

MaxHistAge == 1
MaxElapsedAge == 45
AgeDays == {1, 13, 14}

SubmitAge ==
    \E user_name \in AgeNames, creation_date \in AgeCreations :
        /\ Idle
        /\ HistLen(user_name) < MaxHistAge
        /\ Submit(SubmitCall(user_name, "LOGIN", "common", NoDate, creation_date, NoName, NoType, NoDate, 0, 0))

AdvanceAge ==
    \E days \in AgeDays :
        /\ Idle
        /\ current_date + days <= StartDate + MaxElapsedAge
        /\ AdvanceTime(days)

RecomputeAge ==
    \E user_name \in AgeNames : Idle /\ Recompute(user_name)

NextAge ==
    \/ SubmitAge
    \/ AdvanceAge
    \/ RecomputeAge
    \/ Return

SpecAge == Init /\ [][NextAge]_vars

----------------------------------------------------------------------------
(* A fourth specification for the delay arguments: a common participant     *)
(* likes the ads of an advertiser, with the delay of the like and the delay *)
(* of the target side supplied, supplied as 0, or left out.                 *)

DelayActors == {"a"}
DelayTargets == {"b"}
DelayDays == {0, 1, 2}
TargetDelayDays == {NotSupplied, 0, 1, 2}

MaxHistDelay == 2
MaxElapsedDelay == 1

SubmitDelay ==
    \E user_name \in DelayActors, target_user_name \in DelayTargets,
       delay_days \in DelayDays, target_delay_days \in TargetDelayDays :
        /\ Idle
        /\ HistLen(user_name) < MaxHistDelay
        /\ HistLen(target_user_name) < MaxHistDelay
        /\ Submit(SubmitCall(user_name, "AD_LIKED", "common", NoDate, NoDate, target_user_name, "advertiser", NoDate, delay_days, target_delay_days))

AdvanceDelay ==
    /\ Idle
    /\ current_date + 1 <= StartDate + MaxElapsedDelay
    /\ AdvanceTime(1)

NextDelay ==
    \/ SubmitDelay
    \/ AdvanceDelay
    \/ Return

SpecDelay == Init /\ [][NextDelay]_vars

----------------------------------------------------------------------------
(* A fifth specification for get_effective_score as a function: a record of *)
(* any catalogued type, in either role, dated at the start date or after    *)
(* it, is evaluated as of the start date and then as of each following day. *)

\* One evaluation a.get_effective_score(as_of) and the value it returned.
EvalCall(a, as_of, result) ==
    [op |-> "get_effective_score", action |-> a, as_of |-> as_of,
     result |-> result, user_name |-> NoName, outcome |-> "done"]

\* Days by which a record may be dated after the first evaluation date.
FutureDays == {0, 2}
RecordDelays == {0, 2}

MaxDaysOld == 10

EvalScore ==
    \E action_type \in DOMAIN ACTION_WEIGHTS, actor \in BOOLEAN,
       ahead \in FutureDays, delay_days \in RecordDelays :
        /\ Idle
        /\ last' = EvalCall(UserAction(action_type, current_date + ahead, actor, delay_days),
                            current_date,
                            GetEffectiveScore(UserAction(action_type, current_date + ahead, actor, delay_days),
                                              current_date))
        /\ UNCHANGED <<users, current_date>>

\* The same record evaluated as of the next day.
EvalLater ==
    /\ last.op = "get_effective_score"
    /\ last.as_of + 1 - last.action.date <= MaxDaysOld
    /\ last' = EvalCall(last.action, last.as_of + 1,
                        GetEffectiveScore(last.action, last.as_of + 1))
    /\ UNCHANGED <<users, current_date>>

NextDecay ==
    \/ EvalScore
    \/ EvalLater
    \/ Return

SpecDecay == Init /\ [][NextDecay]_vars

----------------------------------------------------------------------------
(* A sixth specification for the expiry of all activity: advertisers gather *)
(* decaying gains and non-decaying penalties, some dated ahead, while the   *)
(* clock stands at the start date; from the first advance_time on there is  *)
(* no further submit.                                                       *)

QuietNames == {"a", "b"}
QuietTypes == {"AD_POSTED_FREE", "REPORTED_ADVERTISER"}

\* An explicit action_date a few days after the start date.
AheadDate == StartDate + 5

MaxHistQuiet == 2
MaxElapsedQuiet == 41
QuietDays == {10, 21, 31}

SubmitQuiet ==
    \E user_name \in QuietNames, action_type \in QuietTypes,
       action_date \in {NoDate, AheadDate}, creation_date \in {NoDate, OldCreation} :
        /\ Idle
        /\ current_date = StartDate
        /\ HistLen(user_name) < MaxHistQuiet
        /\ Submit(SubmitCall(user_name, action_type, "advertiser", action_date, creation_date, NoName, NoType, NoDate, 0, 0))

AdvanceQuiet ==
    \E days \in QuietDays :
        /\ Idle
        /\ current_date + days <= StartDate + MaxElapsedQuiet
        /\ AdvanceTime(days)

NextQuiet ==
    \/ SubmitQuiet
    \/ AdvanceQuiet
    \/ Return

SpecQuiet == Init /\ [][NextQuiet]_vars

----------------------------------------------------------------------------
(* Properties *)

Registered == DOMAIN users

\* The raw score of a registered participant at the current date: its
\* activity sum plus its tenure bonus, before clamping.
RawScore(n) ==
    SumScores(users[n].action_history, current_date)
    + CalculateAgeScore(users[n].creation_date, current_date)

\* The ranges of the tier table that hold a score.
TiersHolding(score) ==
    {i \in 1..Len(BADGE_LEVELS) :
        BADGE_LEVELS[i][1] * Scale <= score /\ score <= BADGE_LEVELS[i][2] * Scale}

\* A participant that update_user_score has scored at least once (the tenure
\* bonus is 0 only before the first recompute).
Scored(n) == users[n].age_score_component # 0

\* C1: in every reachable state every registered participant's stored score
\* s satisfies 0 <= s <= 100, whatever its raw sum.
C1_ScoreInRange ==
    \A n \in Registered : 0 <= users[n].score /\ users[n].score <= 100 * Scale

\* C1 witness: a participant whose raw score exceeds 100 holds exactly 100.
C1_Witness ==
    \E n \in Registered :
        /\ last.op = "submit"
        /\ RawScore(n) > 100 * Scale
        /\ users[n].score = 100 * Scale

\* C2: after any recompute the participant's tier is defined: exactly one
\* tier range holds its score and the None path is not taken.
C2_TierAlwaysDefined ==
    \A n \in Registered :
        Scored(n) =>
            /\ Cardinality(TiersHolding(users[n].score)) = 1
            /\ users[n].badge # NoBadge

----------------------------------------------------------------------------
(* Vocabulary of the properties of handle_user_action steps.  The unprimed *)
(* state is the one the call starts in, last' holds the call.              *)

\* The records of h dated within the history window ending at date d.
Kept(h, d) == SelectSeq(h, LAMBDA r : r.date >= d - history_days)

\* The history of a name before the call: empty for an unregistered one.
HistoryOf(n) == IF n \in DOMAIN users THEN users[n].action_history ELSE <<>>

\* The role class the acting participant has once resolved or created.
RoleOf(n, supplied) == IF n \in DOMAIN users THEN users[n].type ELSE supplied

\* The name is registered under a role class other than the supplied one.
Mismatch(n, supplied) ==
    n \in DOMAIN users /\ supplied # NoType /\ users[n].type # supplied

\* The date the call's records carry.
DateOfCall(c, today) == IF c.action_date = NoDate THEN today ELSE c.action_date

\* A submit whose actor passes the catalog lookup, the role check and the
\* eligibility check.
EligibleSubmit(c) ==
    /\ c.op = "submit"
    /\ c.action_type \in DOMAIN ACTION_WEIGHTS
    /\ ~Mismatch(c.user_name, c.user_type)
    /\ RoleOf(c.user_name, c.user_type) \in ACTION_WEIGHTS[c.action_type].allowed_for

\* In the primed state, n's score, tenure bonus and tier are those of a
\* recompute of its primed history at the primed date.
ScoredNow(n) ==
    LET u == users'[n]
        age == CalculateAgeScore(u.creation_date, current_date')
        raw == SumScores(u.action_history, current_date') + age
    IN  /\ u.age_score_component = age
        /\ u.score = Max(0, Min(100 * Scale, raw))
        /\ u.badge = GetBadgeForScore(u.score)

\* h2 is h1 with one record appended, of the given type, date and role.
OneNewRecord(h1, h2, action_type, date, actor) ==
    /\ Len(h2) = Len(h1) + 1
    /\ SubSeq(h2, 1, Len(h1)) = h1
    /\ h2[Len(h2)].action_type = action_type
    /\ h2[Len(h2)].date = date
    /\ h2[Len(h2)].actor = actor

----------------------------------------------------------------------------
\* C3: a recompute at date D leaves exactly the records dated D - W or
\* later, in their order, scores from those alone, and no state ever holds a
\* record older than the window again.
C3_RecomputePrunes ==
    [][/\ \A n \in DOMAIN users :
            (/\ last'.outcome = "done"
             /\ \/ last'.op = "advance"
                \/ last'.op = "recompute" /\ last'.user_name = n)
            => /\ users'[n].action_history =
                    Kept(users[n].action_history, current_date')
               /\ ScoredNow(n)
       /\ \A n \in DOMAIN users' :
            \A i \in 1..Len(users'[n].action_history) :
                users'[n].action_history[i].date >= current_date' - history_days
      ]_vars

\* C3 witness: after an advance of W + 1 days a participant whose only
\* record was dated W + 1 days ago holds no record.
C3_Witness ==
    /\ last.op = "advance"
    /\ last.days = history_days + 1
    /\ \E n \in Registered :
        /\ users[n].last_action_date = current_date - (history_days + 1)
        /\ users[n].action_history = <<>>

\* C4: a dual-party submit by an eligible actor, with a target other than
\* the actor, no role mismatch and an in-window date, gives the actor one new
\* actor-role record and the target one new target-role record of that type
\* and date, and rescores both at the current date.
C4_DualSubmit ==
    [][\A a \in Names, t \in Names :
        (/\ EligibleSubmit(last')
         /\ last'.user_name = a
         /\ last'.target_user_name = t
         /\ a # t
         /\ ACTION_WEIGHTS[last'.action_type].affects_target
         /\ ~Mismatch(t, last'.target_user_type)
         /\ DateOfCall(last', current_date) >= current_date - history_days)
        => /\ last'.outcome = "returned_actor"
           /\ current_date' = current_date
           /\ DOMAIN users' = DOMAIN users \cup {a, t}
           /\ OneNewRecord(HistoryOf(a), users'[a].action_history,
                           last'.action_type, DateOfCall(last', current_date), TRUE)
           /\ OneNewRecord(HistoryOf(t), users'[t].action_history,
                           last'.action_type, DateOfCall(last', current_date), FALSE)
           /\ ScoredNow(a)
           /\ ScoredNow(t)
      ]_vars

\* C4 witness: a completed dual-party submit on top of two existing
\* histories.
C4_Witness ==
    \E a \in Registered, t \in Registered :
        /\ last.op = "submit"
        /\ last.outcome = "returned_actor"
        /\ last.user_name = a
        /\ last.target_user_name = t
        /\ a # t
        /\ Len(users[a].action_history) = 2
        /\ Len(users[t].action_history) = 2
        /\ users[a].action_history[2] = UserAction("AD_LIKED", current_date, TRUE, 0)
        /\ users[t].action_history[2] = UserAction("AD_LIKED", current_date, FALSE, 0)

\* C5: a submit by an actor whose role class is not eligible for the event
\* type raises nothing, returns the actor, records nothing for anyone and
\* rescores nobody: every registered participant is as it was, and an actor
\* created by the call is a fresh, unscored participant.
C5_PolicyRejection ==
    [][(/\ last'.op = "submit"
        /\ last'.action_type \in DOMAIN ACTION_WEIGHTS
        /\ ~Mismatch(last'.user_name, last'.user_type)
        /\ RoleOf(last'.user_name, last'.user_type)
              \notin ACTION_WEIGHTS[last'.action_type].allowed_for)
       => /\ last'.outcome = "returned_actor"
          /\ current_date' = current_date
          /\ DOMAIN users' = DOMAIN users \cup {last'.user_name}
          /\ \A n \in DOMAIN users : users'[n] = users[n]
          /\ users'[last'.user_name].action_history = HistoryOf(last'.user_name)
          /\ last'.user_name \notin DOMAIN users =>
                /\ users'[last'.user_name].score = 0
                /\ users'[last'.user_name].badge = NoBadge
                /\ users'[last'.user_name].age_score_component = 0
      ]_vars

\* C5 witness: a rejected dual-party submit, with a target named, by a
\* participant that holds a history.
C5_Witness ==
    /\ last.op = "submit"
    /\ last.outcome = "returned_actor"
    /\ last.action_type \in DOMAIN ACTION_WEIGHTS
    /\ last.target_user_name # NoName
    /\ last.user_name \in Registered
    /\ users[last.user_name].type
          \notin ACTION_WEIGHTS[last.action_type].allowed_for
    /\ users[last.user_name].action_history # <<>>

----------------------------------------------------------------------------
\* C6: a submit of an event type that is not in the catalog ends in an error
\* reported to the caller.
C6_UnknownTypeReported ==
    (last.op = "submit" /\ last.action_type \notin DOMAIN ACTION_WEIGHTS)
        => last.outcome = "ValueError"

\* C7: a submit of an event type that is not in the catalog changes nothing:
\* the registry, every participant and the current date are as before.
C7_UnknownTypeNoChange ==
    [][(last'.op = "submit" /\ last'.action_type \notin DOMAIN ACTION_WEIGHTS)
       => users' = users /\ current_date' = current_date
      ]_vars

\* C7 witness: such a submit has named an unregistered participant, beside a
\* registered one, and none was created for it.
C7_Witness ==
    /\ last.op = "submit"
    /\ last.action_type \notin DOMAIN ACTION_WEIGHTS
    /\ last.user_name \notin Registered
    /\ Registered # {}

\* The call reaches the lookup of its target: an eligible actor, an event
\* type with a secondary party, a target named.
ReachesTarget(c) ==
    /\ EligibleSubmit(c)
    /\ ACTION_WEIGHTS[c.action_type].affects_target
    /\ c.target_user_name # NoName

\* The call names registered participant p under another role class, at a
\* place where the dispatcher resolves p: as its actor, or as the target of
\* a call that reaches its target.
NamesUnderOtherRole(c, p) ==
    /\ c.op = "submit"
    /\ c.action_type \in DOMAIN ACTION_WEIGHTS
    /\ \/ c.user_name = p /\ Mismatch(p, c.user_type)
       \/ /\ ReachesTarget(c)
          /\ c.target_user_name = p
          /\ Mismatch(p, c.target_user_type)

\* C8 as claimed: a submit naming a registered participant under another
\* role class fails with the mismatch error and leaves that participant as
\* it was.
C8_MismatchLeavesUntouched ==
    [][\A p \in DOMAIN users :
        NamesUnderOtherRole(last', p)
        => last'.outcome = "ValueError" /\ users'[p] = users[p]
      ]_vars

\* C8 amended: such a submit fails with the mismatch error; the participant
\* keeps its role class and creation date, and is wholly unchanged unless it
\* is the eligible actor of the same call, named under the other role only
\* as the target: then the actor-role record has been appended and the
\* participant recomputed (which prunes the record if dated before the window).
C8_MismatchAmended ==
    [][\A p \in DOMAIN users :
        NamesUnderOtherRole(last', p)
        => /\ last'.outcome = "ValueError"
           /\ users'[p].type = users[p].type
           /\ users'[p].creation_date = users[p].creation_date
           /\ (last'.user_name = p /\ Mismatch(p, last'.user_type))
                => users' = users
           /\ last'.user_name # p => users'[p] = users[p]
           /\ (last'.user_name = p /\ ~Mismatch(p, last'.user_type))
                => /\ users'[p].action_history =
                         Kept(Append(users[p].action_history,
                                     UserAction(last'.action_type,
                                                DateOfCall(last', current_date),
                                                TRUE, last'.delay_days)),
                              current_date)
                   /\ ScoredNow(p)
      ]_vars

\* C8 witness: a submit has failed on its target, a registered participant
\* other than the actor, named under another role class.
C8_Witness ==
    /\ last.op = "submit"
    /\ last.outcome = "ValueError"
    /\ last.user_name \in Registered
    /\ last.target_user_name \in Registered
    /\ last.target_user_name # last.user_name
    /\ last.target_user_type # NoType
    /\ users[last.target_user_name].type # last.target_user_type
    /\ users[last.target_user_name].action_history # <<>>

\* C9: a secondary-party submit by an eligible actor with no target raises
\* nothing, appends the actor-role record and rescores the actor; nobody
\* else changes and nobody is created for a target.
C9_PartialCompletion ==
    [][(/\ EligibleSubmit(last')
        /\ ACTION_WEIGHTS[last'.action_type].affects_target
        /\ last'.target_user_name = NoName)
       => /\ last'.outcome = "returned_actor"
          /\ DOMAIN users' = DOMAIN users \cup {last'.user_name}
          /\ \A n \in DOMAIN users \ {last'.user_name} : users'[n] = users[n]
          /\ users'[last'.user_name].action_history =
                Kept(Append(HistoryOf(last'.user_name),
                            UserAction(last'.action_type,
                                       DateOfCall(last', current_date),
                                       TRUE, last'.delay_days)),
                     current_date)
          /\ ScoredNow(last'.user_name)
      ]_vars

\* C9 witness: such a submit has returned, beside another registered
\* participant; the actor's newest record is the actor-role one.
C9_Witness ==
    /\ last.op = "submit"
    /\ last.outcome = "returned_actor"
    /\ last.action_type = "AD_LIKED"
    /\ last.target_user_name = NoName
    /\ Cardinality(Registered) = 2
    /\ last.user_name \in Registered
    /\ Len(users[last.user_name].action_history) = 2
    /\ users[last.user_name].action_history[2] =
          UserAction("AD_LIKED", current_date, TRUE, 0)

\* C10: advance_time(d) adds exactly d days to the current date and leaves
\* every registered participant pruned, scored and classified at the new
\* date; no other call moves the date.
C10_ClockMovesOnlyByAdvance ==
    [][/\ last'.op = "advance"
            => /\ current_date' = current_date + last'.days
               /\ DOMAIN users' = DOMAIN users
               /\ \A n \in DOMAIN users :
                    /\ users'[n].action_history =
                          Kept(users[n].action_history, current_date')
                    /\ ScoredNow(n)
       /\ last'.op # "advance" => current_date' = current_date
      ]_vars

\* C10 witness: an advance of W days has returned with two registered
\* participants, one holding a record now exactly W days old.
C10_Witness ==
    /\ last.op = "advance"
    /\ last.days = history_days
    /\ Cardinality(Registered) = 2
    /\ \E n \in Registered :
        /\ users[n].action_history # <<>>
        /\ users[n].action_history[1].date = current_date - history_days
        /\ users[n].score < users[n].age_score_component + 5000

----------------------------------------------------------------------------
\* C11: recompute is idempotent: in the state a recompute(p) has left, with
\* no submit and no clock advance in between, a second recompute(p) leaves
\* p's history, score, tenure bonus and tier (the whole registry) as they are.
C11_RecomputeIdempotent ==
    (last.op = "recompute" /\ last.outcome = "done") =>
        UpdateUserScore(users, last.user_name, current_date) = users

\* C11 witness: a recompute has scored a participant that holds records and
\* a score above its tenure bonus.
C11_Witness ==
    /\ last.op = "recompute"
    /\ last.outcome = "done"
    /\ Len(users[last.user_name].action_history) > 0
    /\ users[last.user_name].score > users[last.user_name].age_score_component

----------------------------------------------------------------------------
\* The four values of the tenure bonus: 20 times 0.15, 0.3, 0.4 and 0.5.
TenureValues == {3 * Scale, 6 * Scale, 8 * Scale, 10 * Scale}

\* The participants the call held in last' has recomputed.
RecomputedBy(c) ==
    IF c.op = "advance" THEN DOMAIN users'
    ELSE IF c.op = "recompute" /\ c.outcome = "done" THEN {c.user_name}
    ELSE IF EligibleSubmit(c) THEN {c.user_name}
    ELSE {}

\* C12: after any recompute the cached tenure bonus is one of 3, 6, 8, 10,
\* never 0, and no step lowers a participant's cached tenure bonus: for its
\* fixed creation date the bonus is non-decreasing as the clock advances.
C12_TenureFourValuesMonotone ==
    [][/\ \A n \in RecomputedBy(last') :
              users'[n].age_score_component \in TenureValues
       /\ \A n \in DOMAIN users :
              /\ users'[n].creation_date = users[n].creation_date
              /\ users'[n].age_score_component >= users[n].age_score_component
      ]_vars

\* C12 witness: an advance_time has carried a participant created on
\* 2017-08-01 over its eighth year: its bonus, 8 at the start date, is 10.
C12_Witness ==
    /\ last.op = "advance"
    /\ \E n \in Registered :
        /\ users[n].creation_date = DateOf(2017, 8, 1)
        /\ CalculateAgeScore(users[n].creation_date, StartDate) = 8 * Scale
        /\ users[n].age_score_component = 10 * Scale

----------------------------------------------------------------------------
\* The whole months elapsed from date c to date t: a calendar month counts
\* once the day of the month of c has been reached in it.
WholeMonths(c, t) ==
    (YearOf(t) - YearOf(c)) * 12 + (MonthOf(t) - MonthOf(c))
    - (IF DayOf(t) < DayOf(c) THEN 1 ELSE 0)

\* The tenure bonus for an age in whole months: age >= 8 years gives 10,
\* >= 5 gives 8, >= 2 gives 6, otherwise 3.
TenureOfMonths(months) ==
    IF months >= 96 THEN 10 * Scale
    ELSE IF months >= 60 THEN 8 * Scale
    ELSE IF months >= 24 THEN 6 * Scale
    ELSE 3 * Scale

\* C13: the tenure bonus of a scored participant is the one of the whole
\* months elapsed between its creation date and the current date, the day of
\* the month included: a participant still short of a threshold does not
\* get that threshold's multiplier.
C13_TenureFromWholeMonths ==
    \A n \in Registered :
        Scored(n) =>
            users[n].age_score_component
                = TenureOfMonths(WholeMonths(users[n].creation_date, current_date))

----------------------------------------------------------------------------
\* The last record of the primed history of n.
NewestRecord(n) == users'[n].action_history[Len(users'[n].action_history)]

\* C14: in a dual-party submit the target-role record's delay is
\* target_delay_days whenever the caller supplies it, and delay_days only
\* when it is left out; the actor-role record's delay is always delay_days.
C14_TargetDelayAsSupplied ==
    [][(/\ EligibleSubmit(last')
        /\ last'.outcome = "returned_actor"
        /\ last'.target_user_name # NoName
        /\ last'.target_user_name # last'.user_name)
       => /\ OneNewRecord(HistoryOf(last'.user_name),
                          users'[last'.user_name].action_history,
                          last'.action_type, current_date, TRUE)
          /\ NewestRecord(last'.user_name).delay_days = last'.delay_days
          /\ OneNewRecord(HistoryOf(last'.target_user_name),
                          users'[last'.target_user_name].action_history,
                          last'.action_type, current_date, FALSE)
          /\ NewestRecord(last'.target_user_name).delay_days
                = IF last'.target_delay_days # NotSupplied
                  THEN last'.target_delay_days
                  ELSE last'.delay_days
      ]_vars

----------------------------------------------------------------------------
\* The weight a record contributes before decay: the one of its role.
BaseOf(a) ==
    IF a.actor THEN ACTION_WEIGHTS[a.action_type].score
    ELSE ACTION_WEIGHTS[a.action_type].target_score

----------------------------------------------------------------------------
\* C16: between operations no registered participant holds a stale record:
\* every record of every history is dated current_date - history_days or
\* later, even after a submit with an explicit date older than the window.
C16_WindowInvariant ==
    \A n \in Registered :
        \A i \in 1..Len(users[n].action_history) :
            users[n].action_history[i].date >= current_date - history_days

\* C16 witness: a dual-party submit dated before the window has returned the
\* actor, and neither the actor nor the target holds a record.
C16_Witness ==
    /\ last.op = "submit"
    /\ last.outcome = "returned_actor"
    /\ last.action_date # NoDate
    /\ last.action_date < current_date - history_days
    /\ last.target_user_name \in Registered \ {last.user_name}
    /\ users[last.user_name].type = "common"
    /\ users[last.user_name].action_history = <<>>
    /\ users[last.target_user_name].action_history = <<>>
    /\ Scored(last.user_name)
    /\ Scored(last.target_user_name)

----------------------------------------------------------------------------
\* C17: after every completed submit or advance_time, each registered
\* participant's stored score is clamp(activity sum at the current date +
\* tenure bonus at the current date, 0, 100) and its tier is the one of that
\* score, participants registered by a rejected or failed submit included.
C17_ScoreConsistent ==
    last.op \in {"submit", "advance"} =>
        \A n \in Registered :
            /\ users[n].score = Max(0, Min(100 * Scale, RawScore(n)))
            /\ users[n].badge = GetBadgeForScore(users[n].score)

----------------------------------------------------------------------------
\* C18: in every reachable state, for every participant p and every
\* actor-role record r of p's history, p's role class is among the eligible
\* roles of r's event type; no step changes a participant's role class.
C18_ActorRecordsEligible ==
    [][/\ \A n \in DOMAIN users : users'[n].type = users[n].type
       /\ \A n \in DOMAIN users' :
            \A i \in 1..Len(users'[n].action_history) :
                users'[n].action_history[i].actor
                => users'[n].type
                     \in ACTION_WEIGHTS[users'[n].action_history[i].action_type].allowed_for
      ]_vars

\* C18 witness: an advertiser holds an actor-role record of its own next to
\* the target-role record of an event type that only common participants
\* may perform, received from the submit just completed.
C18_Witness ==
    /\ last.op = "submit"
    /\ last.action_type = "AD_LIKED"
    /\ last.outcome = "returned_actor"
    /\ last.target_user_name \in Registered
    /\ users[last.target_user_name].type = "advertiser"
    /\ "advertiser" \notin ACTION_WEIGHTS["AD_LIKED"].allowed_for
    /\ \E i \in 1..Len(users[last.target_user_name].action_history) :
            /\ users[last.target_user_name].action_history[i].action_type = "AD_LIKED"
            /\ ~users[last.target_user_name].action_history[i].actor
    /\ \E i \in 1..Len(users[last.target_user_name].action_history) :
            users[last.target_user_name].action_history[i].actor

----------------------------------------------------------------------------
\* The call is a dual-party submit by an eligible actor whose target is
\* registered under a role class other than the supplied target role class.
FailsOnTarget(c) ==
    /\ ReachesTarget(c)
    /\ Mismatch(c.target_user_name, c.target_user_type)

\* The acting participant of the call in last' holds the actor-role record
\* appended to the history it had (within the window) and is recomputed.
ActorSideDone ==
    /\ last'.user_name \in DOMAIN users'
    /\ users'[last'.user_name].action_history =
          Kept(Append(HistoryOf(last'.user_name),
                      UserAction(last'.action_type,
                                 DateOfCall(last', current_date),
                                 TRUE, last'.delay_days)),
               current_date)
    /\ ScoredNow(last'.user_name)

\* C19 as claimed: such a submit raises the mismatch error after the actor
\* side is done; the actor-side change stays, and the target's history and
\* score are unchanged.
C19_TargetFailureNotAtomic ==
    [][FailsOnTarget(last')
       => /\ last'.outcome = "ValueError"
          /\ ActorSideDone
          /\ users'[last'.target_user_name].action_history
                = users[last'.target_user_name].action_history
          /\ users'[last'.target_user_name].score
                = users[last'.target_user_name].score
      ]_vars

\* C19 amended: the same, with the target unchanged when it is a participant
\* other than the actor; an actor that names itself as the target keeps the
\* actor-side change. Nobody else changes and nobody but the actor is
\* registered by the call.
C19_TargetFailureAmended ==
    [][FailsOnTarget(last')
       => /\ last'.outcome = "ValueError"
          /\ ActorSideDone
          /\ DOMAIN users' = DOMAIN users \cup {last'.user_name}
          /\ \A n \in DOMAIN users \ {last'.user_name} : users'[n] = users[n]
      ]_vars

\* C19 witness: a dual-party submit has raised on its target, registered
\* under another role class; the actor, another participant, holds the new
\* actor-role record and a score above its tenure bonus, and the target
\* holds no target-role record.
C19_Witness ==
    /\ last.op = "submit"
    /\ last.outcome = "ValueError"
    /\ last.action_date = NoDate
    /\ last.user_name \in Registered
    /\ last.target_user_name \in Registered \ {last.user_name}
    /\ Len(users[last.user_name].action_history) > 0
    /\ users[last.user_name].action_history[Len(users[last.user_name].action_history)]
          = UserAction(last.action_type, current_date, TRUE, last.delay_days)
    /\ users[last.user_name].score > users[last.user_name].age_score_component
    /\ \A i \in 1..Len(users[last.target_user_name].action_history) :
          users[last.target_user_name].action_history[i].actor

----------------------------------------------------------------------------
\* No record of the history is dated after date d.
NoneAfter(h, d) == \A i \in 1..Len(h) : h[i].date <= d

\* C20: once advance_time calls with no submit in between have moved the
\* clock more than history_days past the start date, every participant none
\* of whose records was dated after the start date has an empty history and
\* a score equal to its tenure bonus, non-decaying penalties included; the
\* records that are left are all dated after the start date.
C20_AllActivityExpires ==
    [][current_date' > StartDate + history_days =>
        \A n \in DOMAIN users :
            /\ NoneAfter(users[n].action_history, StartDate)
                 => /\ users'[n].action_history = <<>>
                    /\ users'[n].age_score_component \in TenureValues
                    /\ users'[n].age_score_component
                          = CalculateAgeScore(users[n].creation_date, current_date')
                    /\ users'[n].score = users'[n].age_score_component
            /\ ~NoneAfter(users'[n].action_history, StartDate)
                 => ~NoneAfter(users[n].action_history, StartDate)
      ]_vars

\* C20 witness: more than history_days after the start date an advance_time
\* has left a long-standing advertiser, whose last action was at the start
\* date, with an empty history and its tenure bonus of 10 as its score.
C20_Witness ==
    /\ last.op = "advance"
    /\ current_date > StartDate + history_days
    /\ \E n \in Registered :
        /\ users[n].last_action_date = StartDate
        /\ users[n].creation_date = OldCreation
        /\ users[n].action_history = <<>>
        /\ users[n].score = 10 * Scale

=============================================================================
